---- MODULE Spec2Model ----
(***************************************************************************)
(* Model of app.py (What's BROing landing page):                           *)
(*   - the countdown calculator: compute_remaining, breakdown_timedelta;   *)
(*   - the submission recorder: append_to_gsheet and the CSV fallback of   *)
(*     the two forms of run_streamlit_app.                                 *)
(* Python's datetime/timedelta arithmetic is modelled field by field       *)
(* (days, seconds, microseconds), as the standard library computes it.     *)
(***************************************************************************)
EXTENDS Integers, Sequences, FiniteSets, TLC

(***************************************************************************)
(* Bounds of the model.                                                    *)
(***************************************************************************)
\* calendar days 0..MaxDay after 2025-10-01 are all sampled
MaxDay == 2
\* form submissions made by the user in one behaviour
MaxSubmissions == 2
\* length of the text typed into a name or email field
MaxLen == 1
\* length of the text typed into the FAQ search box
MaxQueryLen == 2

(***************************************************************************)
(* Units of Python's timedelta.                                            *)
(***************************************************************************)
SecondsPerMinute == 60
SecondsPerHour == 3600
SecondsPerDay == 24 * 3600
MicrosPerSecond == 1000 * 1000

(***************************************************************************)
(* Instants.  A datetime is its wall-clock fields and its tzinfo.  The     *)
(* wall clock is (day, sec, us): days since 2025-10-01, second of the day, *)
(* microsecond of the second.                                              *)
(***************************************************************************)
NoTz == "None"
MADRID_TZ == "Europe/Madrid"
UTC_TZ == "UTC"
TzInfos == {NoTz, MADRID_TZ, UTC_TZ}

\* day 25 is 2025-10-26 (end of summer time in Madrid), day 31 is 2025-11-01
DayOffsets == (0 .. MaxDay) \cup {25, 31}
\* 00:00:00, 05:07:09, 12:00:00
SecOffsets == {0, 5 * 3600 + 7 * 60 + 9, 12 * 3600}
UsOffsets == {0, 500000}

Instants == [day : DayOffsets, sec : SecOffsets, us : UsOffsets, tz : TzInfos]

Datetime(d, s, u, z) == [day |-> d, sec |-> s, us |-> u, tz |-> z]

LAUNCH_TIME == Datetime(31, 12 * 3600, 0, MADRID_TZ)

\* tzinfo.utcoffset(dt) in seconds.  Europe/Madrid is UTC+2 until the wall
\* clock reaches 2025-10-26 03:00 and UTC+1 afterwards.
UtcOffset(dt) ==
  IF dt.tz = MADRID_TZ
    THEN IF dt.day < 25 \/ (dt.day = 25 /\ dt.sec < 3 * 3600)
           THEN 2 * 3600 ELSE 3600
    ELSE 0

IsAware(dt) == dt.tz # NoTz

\* timedelta(days, seconds, microseconds): the constructor normalises to
\* 0 <= seconds < 86400 and 0 <= microseconds < 10^6, days carries the sign.
timedelta(d, s, u) ==
  LET s1 == s + (u \div MicrosPerSecond)
  IN  [days |-> d + (s1 \div SecondsPerDay),
       seconds |-> s1 % SecondsPerDay,
       microseconds |-> u % MicrosPerSecond]

\* td.total_seconds() < 0
TotalSecondsNegative(td) == td.days < 0

\* datetime.__sub__: raises TypeError when exactly one operand is aware;
\* aware operands of different tzinfo are compared on the UTC scale, all
\* other operands by their wall-clock fields.
DatetimeSub(a, b) ==
  IF IsAware(a) # IsAware(b)
    THEN [raised |-> TRUE, value |-> timedelta(0, 0, 0)]
    ELSE LET adj == IF IsAware(a) /\ a.tz # b.tz
                      THEN UtcOffset(b) - UtcOffset(a) ELSE 0
         IN  [raised |-> FALSE,
              value |-> timedelta(a.day - b.day, a.sec - b.sec + adj,
                                  a.us - b.us)]

\* dt.replace(tzinfo=None): same wall-clock fields, no zone
ReplaceTzinfoNone(dt) == [dt EXCEPT !.tz = NoTz]

compute_remaining_noclamp(n, l) ==
  LET r == DatetimeSub(l, n)
  IN  IF r.raised
        THEN DatetimeSub(ReplaceTzinfoNone(l), ReplaceTzinfoNone(n))
        ELSE r

compute_remaining_swapped(n, l) ==
  LET r == DatetimeSub(n, l)
      delta == IF r.raised
                 THEN DatetimeSub(ReplaceTzinfoNone(n), ReplaceTzinfoNone(l))
                 ELSE r
  IN  IF ~delta.raised /\ TotalSecondsNegative(delta.value)
        THEN [raised |-> FALSE, value |-> timedelta(0, 0, 0)]
        ELSE delta

compute_remaining_abs(n, l) ==
  LET r == DatetimeSub(l, n)
      delta == IF r.raised
                 THEN DatetimeSub(ReplaceTzinfoNone(l), ReplaceTzinfoNone(n))
                 ELSE r
  IN  IF ~delta.raised /\ TotalSecondsNegative(delta.value)
        THEN [raised |-> FALSE,
              value |-> timedelta(-delta.value.days, -delta.value.seconds,
                                  -delta.value.microseconds)]
        ELSE delta

compute_remaining_halfstrip(n, l) ==
  LET r == DatetimeSub(l, n)
      delta == IF r.raised
                 THEN DatetimeSub(ReplaceTzinfoNone(l), n)
                 ELSE r
  IN  IF ~delta.raised /\ TotalSecondsNegative(delta.value)
        THEN [raised |-> FALSE, value |-> timedelta(0, 0, 0)]
        ELSE delta

\* compute_remaining(now, launch).  The result is the returned timedelta,
\* or raised = TRUE when an exception leaves the function.
compute_remaining(n, l) ==
  LET r == DatetimeSub(l, n)
      delta == IF r.raised
                 THEN DatetimeSub(ReplaceTzinfoNone(l), ReplaceTzinfoNone(n))
                 ELSE r
  IN  IF ~delta.raised /\ TotalSecondsNegative(delta.value)
        THEN [raised |-> FALSE, value |-> timedelta(0, 0, 0)]
        ELSE delta

breakdown_timedelta_minutes(td) ==
  LET hours == td.seconds \div SecondsPerMinute
      rem == td.seconds % SecondsPerMinute
  IN  <<td.days, hours, rem \div SecondsPerMinute, rem % SecondsPerMinute>>

\* breakdown_timedelta(td) = (days, hours, minutes, seconds)
breakdown_timedelta(td) ==
  LET hours == td.seconds \div SecondsPerHour
      rem == td.seconds % SecondsPerHour
  IN  <<td.days, hours, rem \div SecondsPerMinute, rem % SecondsPerMinute>>

(***************************************************************************)
(* Texts.  A string is a sequence of tokens: single characters for what    *)
(* the user types, whole words for the fixed strings of the program.       *)
(***************************************************************************)
RECURSIVE TextsUpTo(_, _)
TextsUpTo(chars, n) ==
  IF n = 0 THEN {<<>>}
  ELSE LET shorter == TextsUpTo(chars, n - 1)
       IN  shorter \cup {Append(t, c) : t \in shorter, c \in chars}

IsSpace(c) == c = " "

RECURSIVE LStrip(_)
LStrip(t) == IF t # <<>> /\ IsSpace(Head(t)) THEN LStrip(Tail(t)) ELSE t

RECURSIVE RStrip(_)
RStrip(t) ==
  IF t # <<>> /\ IsSpace(t[Len(t)])
    THEN RStrip(SubSeq(t, 1, Len(t) - 1)) ELSE t

\* str.strip()
Strip(t) == RStrip(LStrip(t))

\* "|".join(items)
RECURSIVE Join(_)
Join(items) ==
  IF items = <<>> THEN <<>>
  ELSE IF Len(items) = 1 THEN items[1]
  ELSE items[1] \o <<"|">> \o Join(Tail(items))

\* datetime.now(MADRID_TZ).isoformat(timespec="seconds"), c seconds after
\* the first submission
IsoFormat(c) == <<"2025-10-01T12:00:00+02:00", ToString(c)>>

(***************************************************************************)
(* The two forms: worksheet title, local file, header and row.             *)
(***************************************************************************)
SIGNUPS == "Signups"
CREW == "Crew Interest"
Collections == {SIGNUPS, CREW}

CsvPath(form) == IF form = SIGNUPS THEN "signups.csv" ELSE "crew_interest.csv"
CsvPaths == {CsvPath(c) : c \in Collections}

Header(form) ==
  IF form = SIGNUPS
    THEN << <<"timestamp">>, <<"name">>, <<"email">>, <<"role">>,
            <<"intent">>, <<"area">> >>
    ELSE << <<"timestamp">>, <<"name">>, <<"email">>, <<"skills">>,
            <<"hours">> >>

\* what the user can enter
NameTexts == TextsUpTo({" ", "n"}, MaxLen)
EmailTexts == TextsUpTo({" ", "e"}, MaxLen)
RoleChoices == {<<"Student">>}
AreaChoices == {<<"Anywhere">>}
IntentChoices == {<<>>, << <<"Make friends">>, <<"Explore cafes">> >>}
SkillChoices == {<<>>, << <<"UI/UX Design">> >>}
HourChoices == {<<"6">>}

FormInputs ==
  [form : {SIGNUPS}, name : NameTexts, email : EmailTexts,
   role : RoleChoices, multi : IntentChoices, last : AreaChoices]
  \cup
  [form : {CREW}, name : NameTexts, email : EmailTexts,
   role : {<<>>}, multi : SkillChoices, last : HourChoices]

\* line 601 and line 704
Validates(in) ==
  IF in.form = SIGNUPS
    THEN Strip(in.name) # <<>> /\ Strip(in.email) # <<>>
    ELSE in.name # <<>> /\ in.email # <<>> /\ in.multi # <<>>

BuildRow_swapped(in, ts) ==
  IF in.form = SIGNUPS
    THEN <<ts, Strip(in.email), Strip(in.name), in.role, Join(in.multi),
           in.last>>
    ELSE <<ts, Strip(in.email), Strip(in.name), Join(in.multi), in.last>>

\* lines 602-609 and 705-711
BuildRow(in, ts) ==
  IF in.form = SIGNUPS
    THEN <<ts, Strip(in.name), Strip(in.email), in.role, Join(in.multi),
           in.last>>
    ELSE <<ts, Strip(in.name), Strip(in.email), Join(in.multi), in.last>>

(***************************************************************************)
(* Stores.  A worksheet or a file is absent, or holds a sequence of rows.  *)
(***************************************************************************)
Absent == [exists |-> FALSE, rows |-> <<>>]
Created == [exists |-> TRUE, rows |-> <<>>]
AppendRow_dedup(store, r) ==
  IF store.rows # <<>> /\ store.rows[Len(store.rows)] = r
    THEN store
    ELSE [store EXCEPT !.rows = Append(@, r)]

AppendRow_front(store, r) == [store EXCEPT !.rows = <<r>> \o @]

\* ws.append_row(r) and writer.writerow(r): r becomes the last row
AppendRow(store, r) == [store EXCEPT !.rows = Append(@, r)]

\* outcome of one request to the remote service: done, refused without
\* effect, or done with the reply lost (the client sees an exception)
RemoteOutcomes == {"ok", "fail", "lost_reply"}
Applied(o) == o \in {"ok", "lost_reply"}
Raises(o) == o \in {"fail", "lost_reply"}

\* the two tiers of the recorder
Stores == {"remote", "local"}

\* open(path, "a"): creates the file when it is absent
OpenAppend(f) == IF f.exists THEN f ELSE Created

(***************************************************************************)
(* Control flow that the claims are about.                                 *)
(***************************************************************************)
GsCatch_narrow(step, exc) ==
  IF step = "gs_lookup" /\ exc = "WorksheetNotFound" THEN "gs_add_worksheet"
  ELSE IF step = "gs_creds" THEN "crashed"
  ELSE "gs_except"

\* where an exception raised at a step of append_to_gsheet is handled:
\* the inner except of line 155 or the outer except of line 162
GsCatch(step, exc) ==
  IF step = "gs_lookup" /\ exc = "WorksheetNotFound" THEN "gs_add_worksheet"
  ELSE "gs_except"

AfterRemote_always_local(ok, calls) == "csv_exists"

AfterRemote_retry(ok, calls) ==
  IF ok THEN "done" ELSE IF calls < 2 THEN "gs_entry" ELSE "csv_exists"

\* lines 616-621: after append_to_gsheet returned
AfterRemote(ok, calls) == IF ok THEN "done" ELSE "csv_exists"

RemoteMessage_quiet(ok) == IF ok THEN <<"success">> ELSE <<>>

\* lines 616-619: the message shown after the remote attempt
RemoteMessage(ok) == IF ok THEN <<"success">> ELSE <<"error_gsheet">>

\* line 625: is_new = not path.exists()
IsNew(f) == ~f.exists

(***************************************************************************)
(* State.                                                                  *)
(***************************************************************************)
VARIABLES
  cdPc, cdNow, cdLaunch, cdRemaining, cdParts,  \* one countdown refresh
  gsheetsAvailable,  \* GSHEETS_AVAILABLE
  sheet,             \* worksheets of the workbook, by title
  file,              \* local files, by path
  pc,                \* position of the form handler
  form, row, header, \* locals of the handler
  success, isNew,    \* locals of the handler
  messages,          \* what the handler has shown for this submission
  clock,             \* seconds elapsed, for the timestamp
  nsubs,             \* submissions made so far
  remoteCalls,       \* calls of append_to_gsheet in this submission
  localOpens,        \* opens of the local file in this submission
  gsFailedAt,        \* step of the running append_to_gsheet that raised
  file0,             \* the local files when this submission started
  sheet0,            \* the worksheets when this submission started
  accepted,          \* submissions reported as stored, by store and title
  lostReplies,       \* row appends done remotely whose reply was lost
  faqPc, faqRaw, query, faqIdx,  \* one run of the FAQ section
  faqExpanders, shown,           \* entries rendered, and their count
  faqInfo,                       \* the "no results" note was shown
  conForm, conFile,              \* two sessions in the CSV fallback of
  conPc, conIsNew, conRow,       \* one form: the file, their locals and
  conBuf                         \* the rows each has written but not flushed

cdVars == <<cdPc, cdNow, cdLaunch, cdRemaining, cdParts>>

recVars == <<gsheetsAvailable, sheet, file, pc, form, row, header, success,
             isNew, messages, clock, nsubs, remoteCalls, localOpens,
             gsFailedAt, file0, sheet0, accepted, lostReplies>>

faqVars == <<faqPc, faqRaw, query, faqIdx, faqExpanders, shown, faqInfo>>

conVars == <<conForm, conFile, conPc, conIsNew, conRow, conBuf>>

vars == <<cdVars, recVars, faqVars, conVars>>

NoParts == <<>>
NoRemaining == [raised |-> FALSE, value |-> timedelta(0, 0, 0)]

(***************************************************************************)
(* The FAQ section (lines 747-781).                                        *)
(***************************************************************************)
\* str.lower() on one character
LowerChar(c) == IF c = "A" THEN "a" ELSE IF c = "B" THEN "b" ELSE c

\* str.lower()
Lower(t) == [i \in DOMAIN t |-> LowerChar(t[i])]

\* needle in hay
In(needle, hay) ==
  \E i \in 0 .. (Len(hay) - Len(needle)) :
    SubSeq(hay, i + 1, i + Len(needle)) = needle

\* the fixed list of (question, answer) pairs, lines 749-771, cut down to
\* four short entries
faqs ==
  << [q |-> <<"A", "b">>, a |-> <<"b", "b">>],
     [q |-> <<"b", " ">>, a |-> <<"a", "A">>],
     [q |-> <<"B", "b">>, a |-> <<" ", "B">>],
     [q |-> <<"c", "c">>, a |-> <<"c", " ">>] >>

QueryTexts == TextsUpTo({" ", "a", "A", "b"}, MaxQueryLen)

FaqMatches_question_only(qry, entry) ==
  qry = <<>> \/ In(qry, Lower(entry.q))

\* line 775
FaqMatches(qry, entry) ==
  qry = <<>> \/ In(qry, Lower(entry.q)) \/ In(qry, Lower(entry.a))

FaqIdle ==
  /\ faqPc = "input"
  /\ faqRaw = <<>>
  /\ query = <<>>
  /\ faqIdx = 1
  /\ faqExpanders = <<>>
  /\ shown = 0
  /\ faqInfo = FALSE

(***************************************************************************)
(* Two sessions in the CSV fallback of the same form.                      *)
(***************************************************************************)
Sessions == {"s1", "s2"}

ConcurrentIdle ==
  /\ conForm = SIGNUPS
  /\ conFile = Absent
  /\ conPc = [s \in Sessions |-> "idle"]
  /\ conIsNew = [s \in Sessions |-> FALSE]
  /\ conRow = [s \in Sessions |-> <<>>]
  /\ conBuf = [s \in Sessions |-> <<>>]

(***************************************************************************)
(* One countdown refresh (lines 547-549 and 565-567).                      *)
(***************************************************************************)
CountdownIdle ==
  /\ cdPc = "start"
  /\ cdNow = LAUNCH_TIME
  /\ cdLaunch = LAUNCH_TIME
  /\ cdRemaining = NoRemaining
  /\ cdParts = NoParts

RecorderIdle ==
  /\ sheet = [c \in Collections |-> Absent]
  /\ file = [p \in CsvPaths |-> Absent]
  /\ pc = "idle"
  /\ form = SIGNUPS
  /\ row = <<>>
  /\ header = <<>>
  /\ success = FALSE
  /\ isNew = FALSE
  /\ messages = <<>>
  /\ clock = 0
  /\ nsubs = 0
  /\ remoteCalls = 0
  /\ localOpens = 0
  /\ gsFailedAt = "none"
  /\ file0 = file
  /\ sheet0 = sheet
  /\ accepted = [s \in Stores |-> [c \in Collections |-> 0]]
  /\ lostReplies = [c \in Collections |-> 0]

InitCountdown ==
  /\ cdPc = "start"
  /\ cdNow \in Instants
  /\ cdLaunch \in Instants
  /\ cdRemaining = NoRemaining
  /\ cdParts = NoParts
  /\ gsheetsAvailable = TRUE
  /\ RecorderIdle
  /\ FaqIdle
  /\ ConcurrentIdle

\* remaining = compute_remaining(now, LAUNCH_TIME)
ComputeRemaining ==
  /\ cdPc = "start"
  /\ cdRemaining' = compute_remaining(cdNow, cdLaunch)
  /\ cdPc' = "computed"
  /\ UNCHANGED <<cdNow, cdLaunch, cdParts, recVars, faqVars, conVars>>

\* d, h, m, s = breakdown_timedelta(remaining)
BreakdownTimedelta ==
  /\ cdPc = "computed"
  /\ ~cdRemaining.raised
  /\ cdParts' = breakdown_timedelta(cdRemaining.value)
  /\ cdPc' = "shown"
  /\ UNCHANGED <<cdNow, cdLaunch, cdRemaining, recVars, faqVars, conVars>>

NextCountdown == ComputeRemaining \/ BreakdownTimedelta

SpecCountdown == InitCountdown /\ [][NextCountdown]_vars

(***************************************************************************)
(* The form handlers of run_streamlit_app (lines 600-636 and 703-738) and  *)
(* append_to_gsheet (lines 135-164), one action per statement that can     *)
(* fail or that changes a store.                                           *)
(***************************************************************************)
Init ==
  /\ CountdownIdle
  /\ gsheetsAvailable \in BOOLEAN
  /\ RecorderIdle
  /\ FaqIdle
  /\ ConcurrentIdle

HandlerLocals == <<form, row, header, success, isNew>>
Ghosts == <<remoteCalls, localOpens, gsFailedAt, file0, sheet0>>
Tallies == <<accepted, lostReplies>>

\* the user presses the submit button of a form (lines 600-615, 703-717)
Submit(in) ==
  /\ pc \in {"idle", "done"}
  /\ nsubs < MaxSubmissions
  /\ nsubs' = nsubs + 1
  /\ \E c \in (IF nsubs = 0 THEN {clock} ELSE {clock, clock + 1}) :
       /\ clock' = c
       /\ row' = IF Validates(in) THEN BuildRow(in, IsoFormat(c)) ELSE <<>>
  /\ form' = in.form
  /\ header' = IF Validates(in) THEN Header(in.form) ELSE <<>>
  /\ success' = FALSE
  /\ isNew' = FALSE
  /\ messages' = IF Validates(in) THEN <<>> ELSE <<"warning">>
  /\ pc' = IF ~Validates(in) THEN "done"
           ELSE IF gsheetsAvailable THEN "gs_entry" ELSE "csv_exists"
  /\ remoteCalls' = 0
  /\ localOpens' = 0
  /\ gsFailedAt' = "none"
  /\ file0' = file
  /\ sheet0' = sheet
  /\ UNCHANGED <<cdVars, faqVars, conVars, gsheetsAvailable, sheet, file, Tallies>>

\* a step of append_to_gsheet that changes no store: it succeeds and
\* control moves on, or it raises
GsPlainStep(step, next) ==
  /\ pc = step
  /\ \E ok \in BOOLEAN :
       IF ok THEN pc' = next /\ gsFailedAt' = gsFailedAt
       ELSE pc' = GsCatch(step, "Exception") /\ gsFailedAt' = step
  /\ UNCHANGED <<Tallies, cdVars, faqVars, conVars, gsheetsAvailable, sheet, file, HandlerLocals,
                 messages, clock, nsubs, remoteCalls, localOpens, file0, sheet0>>

\* lines 141-142
GsEntry ==
  /\ pc = "gs_entry"
  /\ remoteCalls' = remoteCalls + 1
  /\ pc' = IF gsheetsAvailable THEN "gs_creds" ELSE "gs_returned"
  /\ UNCHANGED <<Tallies, cdVars, faqVars, conVars, gsheetsAvailable, sheet, file, HandlerLocals,
                 messages, clock, nsubs, localOpens, gsFailedAt, file0, sheet0>>

\* line 149
GsCredentials == GsPlainStep("gs_creds", "gs_authorize")

\* line 150
GsAuthorize == GsPlainStep("gs_authorize", "gs_open")

\* line 151
GsOpenByKey == GsPlainStep("gs_open", "gs_lookup")

\* lines 153-155: sh.worksheet(title) returns the worksheet, raises
\* WorksheetNotFound, or fails otherwise
GsWorksheet ==
  /\ pc = "gs_lookup"
  /\ \E ok \in BOOLEAN :
       IF ~ok THEN /\ pc' = GsCatch("gs_lookup", "Exception")
                   /\ gsFailedAt' = "gs_lookup"
       ELSE /\ pc' = IF sheet[form].exists THEN "gs_row"
                     ELSE GsCatch("gs_lookup", "WorksheetNotFound")
            /\ gsFailedAt' = gsFailedAt
  /\ UNCHANGED <<Tallies, cdVars, faqVars, conVars, gsheetsAvailable, sheet, file, HandlerLocals,
                 messages, clock, nsubs, remoteCalls, localOpens, file0, sheet0>>

\* line 157
GsAddWorksheet ==
  /\ pc = "gs_add_worksheet"
  /\ \E o \in RemoteOutcomes :
       /\ sheet' = IF Applied(o) THEN [sheet EXCEPT ![form] = Created]
                   ELSE sheet
       /\ IF Raises(o)
            THEN /\ pc' = GsCatch("gs_add_worksheet", "Exception")
                 /\ gsFailedAt' = "gs_add_worksheet"
            ELSE pc' = "gs_header" /\ gsFailedAt' = gsFailedAt
  /\ UNCHANGED <<Tallies, cdVars, faqVars, conVars, gsheetsAvailable, file, HandlerLocals, messages,
                 clock, nsubs, remoteCalls, localOpens, file0, sheet0>>

\* line 158
GsAppendHeader ==
  /\ pc = "gs_header"
  /\ \E o \in RemoteOutcomes :
       /\ sheet' = IF Applied(o)
                     THEN [sheet EXCEPT ![form] = AppendRow(@, header)]
                     ELSE sheet
       /\ IF Raises(o)
            THEN /\ pc' = GsCatch("gs_header", "Exception")
                 /\ gsFailedAt' = "gs_header"
            ELSE pc' = "gs_row" /\ gsFailedAt' = gsFailedAt
  /\ UNCHANGED <<Tallies, cdVars, faqVars, conVars, gsheetsAvailable, file, HandlerLocals, messages,
                 clock, nsubs, remoteCalls, localOpens, file0, sheet0>>

\* lines 160-161
GsAppendRow ==
  /\ pc = "gs_row"
  /\ \E o \in RemoteOutcomes :
       /\ sheet' = IF Applied(o)
                     THEN [sheet EXCEPT ![form] = AppendRow(@, row)]
                     ELSE sheet
       /\ IF Raises(o)
            THEN /\ pc' = GsCatch("gs_row", "Exception")
                 /\ gsFailedAt' = "gs_row"
                 /\ success' = success
            ELSE /\ pc' = "gs_returned"
                 /\ gsFailedAt' = gsFailedAt
                 /\ success' = TRUE
       /\ accepted' = IF o = "ok"
                        THEN [accepted EXCEPT !["remote"][form] = @ + 1]
                        ELSE accepted
       /\ lostReplies' = IF o = "lost_reply"
                           THEN [lostReplies EXCEPT ![form] = @ + 1]
                           ELSE lostReplies
  /\ UNCHANGED <<cdVars, faqVars, conVars, gsheetsAvailable, file, form, row, header, isNew,
                 messages, clock, nsubs, remoteCalls, localOpens, file0, sheet0>>

\* lines 162-164
GsExcept ==
  /\ pc = "gs_except"
  /\ success' = FALSE
  /\ pc' = "gs_returned"
  /\ UNCHANGED <<Tallies, cdVars, faqVars, conVars, gsheetsAvailable, sheet, file, form, row, header,
                 isNew, messages, clock, nsubs, Ghosts>>

\* lines 615-621
GsReturned ==
  /\ pc = "gs_returned"
  /\ messages' = messages \o RemoteMessage(success)
  /\ pc' = AfterRemote(success, remoteCalls)
  /\ gsFailedAt' = "none"
  /\ UNCHANGED <<Tallies, cdVars, faqVars, conVars, gsheetsAvailable, sheet, file, HandlerLocals,
                 clock, nsubs, remoteCalls, localOpens, file0, sheet0>>

\* lines 624-625 and 726-727
CsvExists ==
  /\ pc = "csv_exists"
  /\ isNew' = IsNew(file[CsvPath(form)])
  /\ pc' = "csv_open"
  /\ UNCHANGED <<Tallies, cdVars, faqVars, conVars, gsheetsAvailable, sheet, file, form, row, header,
                 success, messages, clock, nsubs, Ghosts>>

\* lines 626 and 728
CsvOpen ==
  /\ pc = "csv_open"
  /\ localOpens' = localOpens + 1
  /\ \E ok \in BOOLEAN :
       IF ok
         THEN /\ file' = [file EXCEPT ![CsvPath(form)] = OpenAppend(@)]
              /\ pc' = IF isNew THEN "csv_header" ELSE "csv_row"
         ELSE file' = file /\ pc' = "csv_except"
  /\ UNCHANGED <<Tallies, cdVars, faqVars, conVars, gsheetsAvailable, sheet, HandlerLocals, messages,
                 clock, nsubs, remoteCalls, gsFailedAt, file0, sheet0>>

\* lines 628-629 and 730-731
CsvWriteHeader ==
  /\ pc = "csv_header"
  /\ \E ok \in BOOLEAN :
       IF ok
         THEN /\ file' = [file EXCEPT ![CsvPath(form)] = AppendRow(@, header)]
              /\ pc' = "csv_row"
         ELSE file' = file /\ pc' = "csv_except"
  /\ UNCHANGED <<Tallies, cdVars, faqVars, conVars, gsheetsAvailable, sheet, HandlerLocals, messages,
                 clock, nsubs, Ghosts>>

\* lines 630-632 and 732-734
CsvWriteRow ==
  /\ pc = "csv_row"
  /\ \E ok \in BOOLEAN :
       IF ok
         THEN /\ file' = [file EXCEPT ![CsvPath(form)] = AppendRow(@, row)]
              /\ messages' = messages \o <<"success", "info">>
              /\ pc' = "done"
              /\ accepted' = [accepted EXCEPT !["local"][form] = @ + 1]
         ELSE /\ file' = file /\ messages' = messages /\ pc' = "csv_except"
              /\ accepted' = accepted
  /\ UNCHANGED <<lostReplies, cdVars, faqVars, conVars, gsheetsAvailable, sheet, HandlerLocals, clock,
                 nsubs, Ghosts>>

\* lines 633-634 and 735-736
CsvExcept ==
  /\ pc = "csv_except"
  /\ messages' = messages \o <<"error_save">>
  /\ pc' = "done"
  /\ UNCHANGED <<Tallies, cdVars, faqVars, conVars, gsheetsAvailable, sheet, file, HandlerLocals,
                 clock, nsubs, Ghosts>>

Next ==
  \/ \E in \in FormInputs : Submit(in)
  \/ GsEntry
  \/ GsCredentials
  \/ GsAuthorize
  \/ GsOpenByKey
  \/ GsWorksheet
  \/ GsAddWorksheet
  \/ GsAppendHeader
  \/ GsAppendRow
  \/ GsExcept
  \/ GsReturned
  \/ CsvExists
  \/ CsvOpen
  \/ CsvWriteHeader
  \/ CsvWriteRow
  \/ CsvExcept

Spec == Init /\ [][Next]_vars

(***************************************************************************)
(* One run of the FAQ section.                                             *)
(***************************************************************************)
InitFaq ==
  /\ CountdownIdle
  /\ gsheetsAvailable = TRUE
  /\ RecorderIdle
  /\ ConcurrentIdle
  /\ faqPc = "input"
  /\ faqRaw \in QueryTexts
  /\ query = <<>>
  /\ faqIdx = 1
  /\ faqExpanders = <<>>
  /\ shown = 0
  /\ faqInfo = FALSE

\* line 747: query = st.text_input(...).strip().lower(); line 773
FaqSearch ==
  /\ faqPc = "input"
  /\ query' = Lower(Strip(faqRaw))
  /\ shown' = 0
  /\ faqIdx' = 1
  /\ faqPc' = "loop"
  /\ UNCHANGED <<faqRaw, faqExpanders, faqInfo, cdVars, recVars, conVars>>

\* lines 774-778: one iteration of the loop over faqs
FaqVisit ==
  /\ faqPc = "loop"
  /\ faqIdx <= Len(faqs)
  /\ IF FaqMatches(query, faqs[faqIdx])
       THEN /\ faqExpanders' = Append(faqExpanders, faqIdx)
            /\ shown' = shown + 1
       ELSE UNCHANGED <<faqExpanders, shown>>
  /\ faqIdx' = faqIdx + 1
  /\ UNCHANGED <<faqPc, faqRaw, query, faqInfo, cdVars, recVars, conVars>>

\* lines 780-781
FaqEnd ==
  /\ faqPc = "loop"
  /\ faqIdx > Len(faqs)
  /\ faqInfo' = (shown = 0)
  /\ faqPc' = "done"
  /\ UNCHANGED <<faqRaw, query, faqIdx, faqExpanders, shown, cdVars, recVars,
                 conVars>>

NextFaq == FaqSearch \/ FaqVisit \/ FaqEnd

SpecFaq == InitFaq /\ [][NextFaq]_vars

(***************************************************************************)
(* Two sessions (Streamlit runs each session's script in its own thread)   *)
(* in the CSV fallback of the same form, lines 623-634 and 725-736.  Rows  *)
(* written through csv.writer stay in the buffer of the file object until  *)
(* the with block closes it; the close appends them to the file at once.   *)
(***************************************************************************)
\* the rows the form can pass to the fallback
FallbackRows(c) ==
  {BuildRow(in, IsoFormat(0)) : in \in {i \in FormInputs :
                                          i.form = c /\ Validates(i)}}

InitConcurrent ==
  /\ CountdownIdle
  /\ gsheetsAvailable = FALSE
  /\ RecorderIdle
  /\ FaqIdle
  /\ conForm \in Collections
  /\ conFile = Absent
  /\ conPc = [s \in Sessions |-> "csv_exists"]
  /\ conIsNew = [s \in Sessions |-> FALSE]
  /\ conRow \in [Sessions -> FallbackRows(conForm)]
  /\ conBuf = [s \in Sessions |-> <<>>]

\* lines 624-625 and 726-727
ConExists(s) ==
  /\ conPc[s] = "csv_exists"
  /\ conIsNew' = [conIsNew EXCEPT ![s] = IsNew(conFile)]
  /\ conPc' = [conPc EXCEPT ![s] = "csv_open"]
  /\ UNCHANGED <<conForm, conFile, conRow, conBuf, cdVars, recVars, faqVars>>

\* lines 626 and 728
ConOpen(s) ==
  /\ conPc[s] = "csv_open"
  /\ \E ok \in BOOLEAN :
       IF ok
         THEN /\ conFile' = OpenAppend(conFile)
              /\ conPc' = [conPc EXCEPT ![s] = IF conIsNew[s] THEN "csv_header"
                                               ELSE "csv_row"]
         ELSE conFile' = conFile /\ conPc' = [conPc EXCEPT ![s] = "failed"]
  /\ UNCHANGED <<conForm, conIsNew, conRow, conBuf, cdVars, recVars, faqVars>>

\* lines 628-629 and 730-731
ConWriteHeader(s) ==
  /\ conPc[s] = "csv_header"
  /\ conBuf' = [conBuf EXCEPT ![s] = Append(@, Header(conForm))]
  /\ conPc' = [conPc EXCEPT ![s] = "csv_row"]
  /\ UNCHANGED <<conForm, conFile, conIsNew, conRow, cdVars, recVars, faqVars>>

\* lines 630 and 732
ConWriteRow(s) ==
  /\ conPc[s] = "csv_row"
  /\ conBuf' = [conBuf EXCEPT ![s] = Append(@, conRow[s])]
  /\ conPc' = [conPc EXCEPT ![s] = "csv_close"]
  /\ UNCHANGED <<conForm, conFile, conIsNew, conRow, cdVars, recVars, faqVars>>

\* end of the with block of lines 626 and 728, then lines 631-634 and 733-736
ConClose(s) ==
  /\ conPc[s] = "csv_close"
  /\ \E ok \in BOOLEAN :
       IF ok
         THEN /\ conFile' = [conFile EXCEPT !.rows = @ \o conBuf[s]]
              /\ conPc' = [conPc EXCEPT ![s] = "done"]
         ELSE conFile' = conFile /\ conPc' = [conPc EXCEPT ![s] = "failed"]
  /\ conBuf' = [conBuf EXCEPT ![s] = <<>>]
  /\ UNCHANGED <<conForm, conIsNew, conRow, cdVars, recVars, faqVars>>

NextConcurrent ==
  \E s \in Sessions :
    \/ ConExists(s)
    \/ ConOpen(s)
    \/ ConWriteHeader(s)
    \/ ConWriteRow(s)
    \/ ConClose(s)

SpecConcurrent == InitConcurrent /\ [][NextConcurrent]_vars

(***************************************************************************)
(* Properties of the countdown calculator.                                 *)
(***************************************************************************)
ZeroDuration == timedelta(0, 0, 0)

\* lexicographic order of two normalised (days, seconds, microseconds)
TdGe(x, y) ==
  \/ x.days > y.days
  \/ /\ x.days = y.days
     /\ \/ x.seconds > y.seconds
        \/ x.seconds = y.seconds /\ x.microseconds >= y.microseconds

\* wall-clock fields of an instant as a normalised triple
WallKey(dt) == timedelta(dt.day, dt.sec, dt.us)

\* the instant on the UTC scale
UtcKey(dt) == timedelta(dt.day, dt.sec - UtcOffset(dt), dt.us)

SameAwareness(a, b) == IsAware(a) = IsAware(b)

\* a >= b: two aware instants of different zones are ordered on the UTC
\* scale, all others by their wall-clock fields
InstantGe(a, b) ==
  IF IsAware(a) /\ IsAware(b) /\ a.tz # b.tz
    THEN TdGe(UtcKey(a), UtcKey(b))
    ELSE TdGe(WallKey(a), WallKey(b))

\* whole seconds of a duration: td.total_seconds() rounded down
WholeSeconds(td) == td.days * SecondsPerDay + td.seconds

PartsSeconds(p) ==
  p[1] * SecondsPerDay + p[2] * SecondsPerHour + p[3] * SecondsPerMinute + p[4]

PartsInRange(p) ==
  /\ 0 <= p[2] /\ p[2] < 24
  /\ 0 <= p[3] /\ p[3] < 60
  /\ 0 <= p[4] /\ p[4] < 60

\* C1: compute_remaining never returns a negative duration (and never
\* raises), whatever the zone-awareness of now and launch.
Thm_C1_NonNegative ==
  cdPc # "start" =>
    /\ ~cdRemaining.raised
    /\ WholeSeconds(cdRemaining.value) >= 0
    /\ cdRemaining.value.microseconds >= 0

\* a mixed pair whose launch lies before now has been clamped
Wit_C1_Clamped ==
  /\ cdPc = "computed"
  /\ IsAware(cdNow) /\ ~IsAware(cdLaunch)
  /\ cdNow.day = 31 /\ cdLaunch.day = 0
  /\ cdRemaining.value = ZeroDuration

\* C2: for instants of the same zone-awareness with launch >= now the
\* result is launch - now exactly; 2025-10-01T12:00 to 2025-11-01T12:00
\* (same zone) is 31 days and 0 seconds.
Thm_C2_ExactDifference ==
  /\ (cdPc # "start" /\ SameAwareness(cdNow, cdLaunch)
        /\ InstantGe(cdLaunch, cdNow)) =>
       /\ ~cdRemaining.raised
       /\ cdRemaining.value = DatetimeSub(cdLaunch, cdNow).value
  /\ (cdPc # "start" /\ cdNow = Datetime(0, 12 * 3600, 0, MADRID_TZ)
        /\ cdLaunch = LAUNCH_TIME) =>
       /\ cdRemaining.value.days = 31
       /\ cdRemaining.value.seconds = 0
       /\ cdRemaining.value.microseconds = 0

Wit_C2_ThirtyOneDays ==
  /\ cdPc = "computed"
  /\ cdNow = Datetime(0, 12 * 3600, 0, MADRID_TZ)
  /\ cdLaunch = LAUNCH_TIME
  /\ cdRemaining.value = timedelta(31, 0, 0)

\* C3: for now >= launch, equality included, the result is exactly the
\* zero duration.
Thm_C3_PastIsZero ==
  (cdPc # "start" /\ InstantGe(cdNow, cdLaunch)) =>
    cdRemaining = [raised |-> FALSE, value |-> ZeroDuration]

\* same wall clock, but now is in UTC and launch in Madrid: now is later
Wit_C3_PastInterzone ==
  /\ cdPc = "computed"
  /\ cdNow.tz = UTC_TZ /\ cdLaunch.tz = MADRID_TZ
  /\ WallKey(cdNow) = WallKey(cdLaunch)
  /\ cdRemaining.value = ZeroDuration

\* C4 as stated: the parts add up to td.total_seconds(), which has no
\* fractional part only when td.microseconds = 0.
Cex_C4_SumIsTotalSeconds ==
  cdPc = "shown" =>
    /\ PartsSeconds(cdParts) = WholeSeconds(cdRemaining.value)
    /\ cdRemaining.value.microseconds = 0
    /\ PartsInRange(cdParts)

\* C4 (amended): for every non-negative duration the parts add up to the
\* whole seconds of td (td.total_seconds() rounded down, equal to it when
\* td has no microseconds), hours, minutes and seconds are in range, and the
\* zero duration gives (0, 0, 0, 0).
Thm_C4_SumIsWholeSeconds ==
  cdPc = "shown" =>
    /\ PartsSeconds(cdParts) = WholeSeconds(cdRemaining.value)
    /\ PartsInRange(cdParts)
    /\ cdParts[1] >= 0
    /\ cdRemaining.value = ZeroDuration => cdParts = <<0, 0, 0, 0>>

Wit_C4_FractionalDuration ==
  /\ cdPc = "shown"
  /\ cdRemaining.value = timedelta(2, 5 * 3600 + 7 * 60 + 9, 500000)
  /\ cdParts = <<2, 5, 7, 9>>

\* C5: when exactly one of now and launch is zone-aware, compute_remaining
\* does not raise and returns the difference of the wall-clock fields of the
\* two instants, clamped to zero when that difference is negative.
Thm_C5_MixedAwareness ==
  (cdPc # "start" /\ ~SameAwareness(cdNow, cdLaunch)) =>
    /\ ~cdRemaining.raised
    /\ cdRemaining.value =
         IF TdGe(WallKey(cdNow), WallKey(cdLaunch))
           THEN ZeroDuration
           ELSE timedelta(cdLaunch.day - cdNow.day, cdLaunch.sec - cdNow.sec,
                          cdLaunch.us - cdNow.us)

\* test_naive_aware_mismatch: naive now, aware launch
Wit_C5_NaiveNow ==
  /\ cdPc = "computed"
  /\ cdNow = Datetime(0, 12 * 3600, 0, NoTz)
  /\ cdLaunch = LAUNCH_TIME
  /\ cdRemaining.value = timedelta(31, 0, 0)

(***************************************************************************)
(* Properties of the submission recorder.                                  *)
(***************************************************************************)
HasMsg(m) == \E i \in DOMAIN messages : messages[i] = m

\* the submission being handled passed validation
Validated == header # <<>>

\* the handler of a validated submission has run to its end
Finished == pc = "done" /\ Validated

OtherForm(c) == IF c = SIGNUPS THEN CREW ELSE SIGNUPS

\* the local file of the submission's collection gained the data row
LocalOk ==
  LET now == file[CsvPath(form)].rows
      before == file0[CsvPath(form)].rows
  IN  /\ ~success
      /\ Len(now) > Len(before)
      /\ now[Len(now)] = row

\* append_to_gsheet returned True
RemoteOk == success

\* C6: the local file of the collection is written (the fallback runs) if
\* and only if the remote store is unavailable or the remote attempt failed;
\* after a remote success the local files are as they were, and the other
\* collection's file never changes.
Thm_C6_FallbackOnlyOnRemoteFailure ==
  /\ Finished => (localOpens = 1 <=> ~RemoteOk)
  /\ (Finished /\ ~RemoteOk /\ ~HasMsg("error_save")) =>
       (LocalOk /\ file # file0)
  /\ (Validated /\ RemoteOk) => file = file0
  /\ file[CsvPath(OtherForm(form))] = file0[CsvPath(OtherForm(form))]

\* a crew submission stored remotely while signups.csv holds rows of an
\* earlier fallback
Wit_C6_RemoteOkLeavesFile ==
  /\ Finished /\ RemoteOk
  /\ form = CREW
  /\ file[CsvPath(SIGNUPS)].rows # <<>>
  /\ file = file0

\* the file is absent, or starts with the header h and holds it only there
HeaderFirstOnce(f, h) ==
  \/ ~f.exists
  \/ /\ f.rows # <<>>
     /\ f.rows[1] = h
     /\ \A i \in 2 .. Len(f.rows) : f.rows[i] # h

\* C7: after any sequence of fallback writes, failed ones included, each
\* local file is absent or has its header as first row exactly once.
Cex_C7_HeaderFirstOnce ==
  pc \in {"idle", "done"} =>
    \A c \in Collections : HeaderFirstOnce(file[CsvPath(c)], Header(c))

\* C8: a failure at any step of append_to_gsheet makes it return False, no
\* exception reaches the caller, and True is returned only when the data row
\* was appended.
Thm_C8_RemoteFailureReturnsFalse ==
  /\ pc # "crashed"
  /\ pc = "gs_except" => gsFailedAt # "none"
  /\ pc = "gs_returned" =>
       /\ RemoteOk <=> (gsheetsAvailable /\ gsFailedAt = "none")
       /\ RemoteOk =>
            /\ sheet[form].exists
            /\ sheet[form].rows # <<>>
            /\ sheet[form].rows[Len(sheet[form].rows)] = row

\* the header append failed on a worksheet that was just created
Wit_C8_HeaderAppendFailed ==
  /\ pc = "gs_returned"
  /\ gsFailedAt = "gs_header"
  /\ ~success
  /\ sheet[form] = Created

\* C9 as stated: a submission that ends in remote success or in local
\* success shows the accepted message and no error message.
Cex_C9_NoErrorUnlessLocalFails ==
  (Finished /\ (RemoteOk \/ LocalOk)) =>
    /\ HasMsg("success")
    /\ ~HasMsg("error_gsheet")
    /\ ~HasMsg("error_save")

\* C9 (amended): the "failed to save" error is shown exactly when the local
\* write fails; remote success shows only the accepted message; local
\* success shows the accepted message, after the error message "Google
\* Sheets connection failed. Saving locally..." when a remote attempt was
\* made and failed.
Thm_C9_Messages ==
  Finished =>
    /\ RemoteOk => messages = <<"success">>
    /\ LocalOk =>
         messages = (IF gsheetsAvailable THEN <<"error_gsheet">> ELSE <<>>)
                      \o <<"success", "info">>
    /\ HasMsg("error_save") <=> (~RemoteOk /\ ~LocalOk)
    /\ HasMsg("error_save") => ~HasMsg("success")

Wit_C9_ErrorThenAccepted ==
  /\ Finished /\ LocalOk
  /\ messages = <<"error_gsheet", "success", "info">>

\* C10 as stated: every submission makes exactly one remote attempt.
Cex_C10_ExactlyOneRemoteAttempt ==
  Finished => (remoteCalls = 1 /\ localOpens <= 1)

\* C10 (amended): a submission makes at most one remote attempt (exactly
\* one when the remote library is available, none otherwise) and at most
\* one local attempt; the remote store is not contacted after a remote
\* failure and nothing is attempted after a local failure.
Thm_C10_NoRetry ==
  /\ remoteCalls <= 1 /\ localOpens <= 1
  /\ Finished => remoteCalls = (IF gsheetsAvailable THEN 1 ELSE 0)
  /\ pc \in {"csv_exists", "csv_open", "csv_header", "csv_row", "csv_except"}
       => remoteCalls = (IF gsheetsAvailable THEN 1 ELSE 0)
  /\ HasMsg("error_save") => pc = "done"

\* remote attempt failed, then the local attempt failed: one of each
Wit_C10_BothFailedOnce ==
  /\ Finished
  /\ remoteCalls = 1 /\ localOpens = 1
  /\ messages = <<"error_gsheet", "error_save">>

\* number of rows of a store that are not the header of collection c
DataRows(store, c) ==
  Cardinality({i \in DOMAIN store.rows : store.rows[i] # Header(c)})

\* the last two rows of a store are the same data row
TwoIdenticalRows(store, c) ==
  LET n == Len(store.rows)
  IN  /\ n >= 2
      /\ store.rows[n] = store.rows[n - 1]
      /\ store.rows[n] # Header(c)

\* C11 as stated: in each store the number of data rows equals the number
\* of submissions reported as stored there.
Cex_C11_RowsEqualSuccesses ==
  \A c \in Collections :
    /\ DataRows(sheet[c], c) = accepted["remote"][c]
    /\ DataRows(file[CsvPath(c)], c) = accepted["local"][c]

\* C11 (amended): nothing is deduplicated.  The local file holds exactly
\* one data row per submission stored locally; the worksheet holds one data
\* row per submission stored remotely and one more for every row append
\* that took effect although the call raised (reported as remote failure).
Thm_C11_NoDeduplication ==
  \A c \in Collections :
    /\ DataRows(sheet[c], c) = accepted["remote"][c] + lostReplies[c]
    /\ DataRows(file[CsvPath(c)], c) = accepted["local"][c]

\* two submissions with identical row data accepted by the worksheet
Wit_C11_SameRowTwice ==
  /\ pc = "done"
  /\ accepted["remote"][SIGNUPS] = 2
  /\ TwoIdenticalRows(sheet[SIGNUPS], SIGNUPS)

\* store b is store a, or store a with one row r added after all its rows
AppendedAtEnd(a, b, r) ==
  \/ b.rows = a.rows
  \/ /\ Len(b.rows) = Len(a.rows) + 1
     /\ SubSeq(b.rows, 1, Len(a.rows)) = a.rows
     /\ b.rows[Len(b.rows)] = r

\* C12: rows are appended in call order.  Every step leaves the rows of each
\* store in place and adds at most one row, the header or the row of the
\* submission being handled, after all earlier rows of that collection.
Thm_C12_AppendInCallOrder ==
  [][\A c \in Collections :
       /\ \/ AppendedAtEnd(sheet[c], sheet'[c], row)
          \/ AppendedAtEnd(sheet[c], sheet'[c], header)
       /\ \/ AppendedAtEnd(file[CsvPath(c)], file'[CsvPath(c)], row)
          \/ AppendedAtEnd(file[CsvPath(c)], file'[CsvPath(c)], header)
       /\ (sheet'[c] # sheet[c] \/ file'[CsvPath(c)] # file[CsvPath(c)])
            => c = form]_vars

\* the file holds the rows of two submissions, the later one last
Wit_C12_SecondRowLast ==
  /\ pc = "done"
  /\ Len(file[CsvPath(SIGNUPS)].rows) = 3
  /\ file[CsvPath(SIGNUPS)].rows[1] = Header(SIGNUPS)
  /\ file[CsvPath(SIGNUPS)].rows[2] # file[CsvPath(SIGNUPS)].rows[3]
  /\ file[CsvPath(SIGNUPS)].rows[3] = row
  /\ file0[CsvPath(SIGNUPS)].rows = SubSeq(file[CsvPath(SIGNUPS)].rows, 1, 2)

(***************************************************************************)
(* Properties of the FAQ filter.                                           *)
(***************************************************************************)
\* t is a substring of text, letter case ignored
SubstringIgnoringCase(t, text) ==
  \E i \in 1 .. Len(text) + 1 : \E j \in (i - 1) .. Len(text) :
    Lower(SubSeq(text, i, j)) = Lower(t)

\* the entry at index i is to be shown for the query
ToBeShown(i) ==
  \/ query = <<>>
  \/ SubstringIgnoringCase(query, faqs[i].q)
  \/ SubstringIgnoringCase(query, faqs[i].a)

AllIndices == [i \in 1 .. Len(faqs) |-> i]

\* C13: the entries shown are exactly those for which the query (the text
\* typed, stripped) is empty or a case-insensitive substring of the
\* question or of the answer, in the order of the list, each at most once;
\* an empty or whitespace-only query shows all entries.
Thm_C13_FaqFilter ==
  faqPc = "done" =>
    /\ faqExpanders = SelectSeq(AllIndices, ToBeShown)
    /\ shown = Len(faqExpanders)
    /\ (\A i \in DOMAIN faqRaw : faqRaw[i] = " ") => faqExpanders = AllIndices
    /\ Lower(query) = Lower(Strip(faqRaw))

\* " A" is searched as "a": the first two entries match, by question and
\* by answer
Wit_C13_MixedCaseQuery ==
  /\ faqPc = "done"
  /\ faqRaw = <<" ", "A">>
  /\ faqExpanders = <<1, 2>>

(***************************************************************************)
(* Properties of the rows passed to the recorder.                          *)
(***************************************************************************)
\* the value that belongs under a column name, for the form inputs in
\* submitted at second c
FieldFor(col, in, c) ==
  CASE col = <<"timestamp">> -> IsoFormat(c)
    [] col = <<"name">> -> Strip(in.name)
    [] col = <<"email">> -> Strip(in.email)
    [] col = <<"role">> -> in.role
    [] col = <<"intent">> -> Join(in.multi)
    [] col = <<"skills">> -> Join(in.multi)
    [] col = <<"area">> -> in.last
    [] col = <<"hours">> -> in.last

\* C14: every row passed to the recorder is as long as its header, 6 fields
\* for Signups and 5 for Crew Interest, and each field is the value of the
\* input that its column names, whatever the inputs are.
Thm_C14_RowMatchesHeader ==
  /\ [](Validated =>
          /\ Len(row) = Len(header)
          /\ Len(row) = IF form = SIGNUPS THEN 6 ELSE 5
          /\ header[2] = <<"name">> /\ header[3] = <<"email">>)
  /\ [][\A in \in FormInputs :
          (Submit(in) /\ Validates(in)) =>
            \A i \in DOMAIN header' :
              row'[i] = FieldFor(header'[i], in, clock')]_vars

\* a crew row about to be passed to append_to_gsheet
Wit_C14_CrewRow ==
  /\ pc = "gs_entry"
  /\ form = CREW
  /\ Len(row) = 5
  /\ row[2] = <<"n">> /\ row[3] = <<"e">>
  /\ row[4] = <<"UI/UX Design">> /\ row[5] = <<"6">>

(***************************************************************************)
(* Properties of the stores after failures.                                *)
(***************************************************************************)
\* C15: a worksheet created by append_to_gsheet has the header as its first
\* row and data rows only after it: no call appends a data row to a
\* worksheet that has no header, whichever remote steps failed before.
Cex_C15_WorksheetHeaderFirst ==
  \A c \in Collections :
    sheet[c].rows # <<>> => sheet[c].rows[1] = Header(c)

\* store now has gained rows since before, the last of them the row of
\* the submission being handled
GainedRow(before, now) ==
  /\ Len(now.rows) > Len(before.rows)
  /\ now.rows[Len(now.rows)] = row

\* outcomes of the submission being handled
StoredRemote == GainedRow(sheet0[form], sheet[form])
StoredLocal == GainedRow(file0[CsvPath(form)], file[CsvPath(form)])
FailureReported == HasMsg("error_save")

\* C16 as stated: exactly one of the three outcomes, never both stores,
\* never success for a dropped row.
Cex_C16_ExactlyOneOutcome ==
  Finished =>
    /\ StoredRemote \/ StoredLocal \/ FailureReported
    /\ ~(StoredRemote /\ StoredLocal)
    /\ ~(StoredRemote /\ FailureReported)
    /\ ~(StoredLocal /\ FailureReported)
    /\ HasMsg("success") => (StoredRemote \/ StoredLocal)

\* C16 (amended): every validated submission ends with its row in the
\* worksheet, or in the local file, or with a failure reported, and success
\* is only reported by a store that holds the row.  When append_to_gsheet
\* returns True the row is in the worksheet only; when it returns False
\* exactly one of the local append and the reported failure happens, and
\* the row is in the worksheet as well if the remote append took effect
\* before it raised.
Thm_C16_Outcomes ==
  Finished =>
    /\ StoredRemote \/ StoredLocal \/ FailureReported
    /\ RemoteOk => (StoredRemote /\ ~StoredLocal /\ ~FailureReported)
    /\ ~RemoteOk => (StoredLocal # FailureReported)
    /\ HasMsg("success") => ((RemoteOk /\ StoredRemote) \/ StoredLocal)
    /\ (StoredRemote /\ ~RemoteOk) =>
         (HasMsg("error_gsheet") /\ lostReplies[form] > 0)

\* the row append took effect remotely, raised, and the fallback stored the
\* row again
Wit_C16_RowInBothStores ==
  /\ Finished
  /\ ~RemoteOk
  /\ StoredRemote /\ StoredLocal
  /\ messages = <<"error_gsheet", "success", "info">>

(***************************************************************************)
(* Properties of concurrent fallback writes.                               *)
(***************************************************************************)
\* C17: two sessions run the fallback of one form concurrently while the
\* file does not exist; when both have written, the file has the header
\* exactly once, as its first row, followed by the two data rows.
Cex_C17_ConcurrentHeaderOnce ==
  (\A s \in Sessions : conPc[s] = "done") =>
    /\ Len(conFile.rows) = 3
    /\ conFile.rows[1] = Header(conForm)
    /\ \/ <<conFile.rows[2], conFile.rows[3]>> = <<conRow["s1"], conRow["s2"]>>
       \/ <<conFile.rows[2], conFile.rows[3]>> = <<conRow["s2"], conRow["s1"]>>

(***************************************************************************)
(* Properties of the validation of the two forms.                          *)
(***************************************************************************)
\* the name and the email of every row of the store are non-empty texts
NamedRows(store) ==
  \A i \in DOMAIN store.rows :
    store.rows[i][2] # <<>> /\ store.rows[i][3] # <<>>

\* C18: no row with an empty name or email is ever recorded, remotely or
\* locally (a submission whose name or email is empty or whitespace-only
\* is rejected with a warning before any write).
Cex_C18_NoEmptyNameOrEmail ==
  \A c \in Collections : NamedRows(sheet[c]) /\ NamedRows(file[CsvPath(c)])

====
